---- MODULE Spec2Model ----
(***************************************************************************)
(* Model of the DB-connection sync workflow: main.py (main),               *)
(* get_secret.py (GetSecret.execute) and update_db_connection.py           *)
(* (UpdateDbConnection).  Text is modelled as sequences of one-character   *)
(* strings; a properties file is the character sequence stored on disk.    *)
(***************************************************************************)
EXTENDS Integers, Sequences, FiniteSets, TLC

\* ------------------------------------------------------------------------
\* Text helpers (Python str / text-mode file semantics)
\* ------------------------------------------------------------------------

NL == "\n"
CR == "\r"

\* Optional[str] None, and a path that does not exist on disk.
None == <<"None">>
Absent == <<"Absent">>

IsSpace(c) == c \in {" ", "\t", NL, CR}

RECURSIVE LStrip(_)
LStrip(s) == IF s # <<>> /\ IsSpace(Head(s)) THEN LStrip(Tail(s)) ELSE s

RECURSIVE RStrip(_)
RStrip(s) ==
    IF s # <<>> /\ IsSpace(s[Len(s)]) THEN RStrip(SubSeq(s, 1, Len(s) - 1)) ELSE s

\* str.strip()
Strip(s) == RStrip(LStrip(s))

\* index of the first occurrence of character c in s, 0 when there is none
RECURSIVE FindFrom(_, _, _)
FindFrom(s, c, i) ==
    IF i > Len(s) THEN 0 ELSE IF s[i] = c THEN i ELSE FindFrom(s, c, i + 1)

Find(s, c) == FindFrom(s, c, 1)

\* `c in s`
Contains(s, c) == Find(s, c) # 0

\* s.split(c, 1)[0] and s.split(c, 1)[1], for s that contains c
SplitKey(s, c) == SubSeq(s, 1, Find(s, c) - 1)
SplitValue(s, c) == SubSeq(s, Find(s, c) + 1, Len(s))

\* s.startswith(c)
StartsWith(s, c) == s # <<>> /\ Head(s) = c

\* open(path, 'r'): universal newlines, "\r\n" and "\r" are read as "\n"
RECURSIVE UniversalNewlines(_)
UniversalNewlines(s) ==
    IF s = <<>> THEN <<>>
    ELSE IF Head(s) = CR
         THEN <<NL>> \o UniversalNewlines(
                  IF Len(s) > 1 /\ s[2] = NL THEN Tail(Tail(s)) ELSE Tail(s))
         ELSE <<Head(s)>> \o UniversalNewlines(Tail(s))

\* `for line in f`: the lines of the text, each with its terminator when it has one
RECURSIVE SplitLines(_)
SplitLines(s) ==
    IF s = <<>> THEN <<>>
    ELSE LET i == Find(s, NL)
         IN  IF i = 0 THEN <<s>>
             ELSE <<SubSeq(s, 1, i)>> \o SplitLines(SubSeq(s, i + 1, Len(s)))

ReadLines(content) == SplitLines(UniversalNewlines(content))

\* f.writelines(lines)
RECURSIVE WriteLines(_)
WriteLines(lines) ==
    IF lines = <<>> THEN <<>> ELSE Head(lines) \o WriteLines(Tail(lines))

\* ------------------------------------------------------------------------
\* UpdateDbConnection._read_property / _update_property
\* ------------------------------------------------------------------------

\* MatchesKey without the strip() of the split-off key
MatchesKeyUnstripped(line, key) ==
    LET stripped == Strip(line)
    IN  /\ stripped # <<>>
        /\ ~StartsWith(stripped, "#")
        /\ Contains(stripped, "=")
        /\ SplitKey(stripped, "=") = key

\* the test of _update_property on a raw line: an entry line whose key is `key`
MatchesKey(line, key) ==
    LET stripped == Strip(line)
    IN  /\ stripped # <<>>
        /\ ~StartsWith(stripped, "#")
        /\ Contains(stripped, "=")
        /\ Strip(SplitKey(stripped, "=")) = key

RECURSIVE ReadScan(_, _)
ReadScan(lines, key) ==
    IF lines = <<>> THEN None
    ELSE LET line == Strip(Head(lines))
         IN  IF line = <<>> \/ StartsWith(line, "#")
             THEN ReadScan(Tail(lines), key)
             ELSE IF Contains(line, "=") /\ Strip(SplitKey(line, "=")) = key
                  THEN Strip(SplitValue(line, "="))
                  ELSE ReadScan(Tail(lines), key)

\* _read_property(file_path, key) on the file content `content`
ReadProperty(content, key) ==
    IF content = Absent THEN None ELSE ReadScan(ReadLines(content), key)

\* f"{key}={new_value}\n"
EntryLine(key, new_value) == key \o <<"=">> \o new_value \o <<NL>>

RECURSIVE UpdateScan(_, _, _)
UpdateScan(lines, key, new_value) ==
    IF lines = <<>> THEN <<>>
    ELSE (IF MatchesKey(Head(lines), key)
          THEN <<EntryLine(key, new_value)>>
          ELSE <<Head(lines)>>) \o UpdateScan(Tail(lines), key, new_value)

AnyMatch(lines, key) == \E i \in 1..Len(lines) : MatchesKey(lines[i], key)

\* the list `lines` that _update_property writes back
UpdatedLines(content, key, new_value) ==
    LET lines == ReadLines(content)
    IN  UpdateScan(lines, key, new_value)
          \o (IF AnyMatch(lines, key) THEN <<>> ELSE <<EntryLine(key, new_value)>>)

\* _update_property(file_path, key, new_value): the content of the file afterwards
\* (the caller handles content = Absent, which raises FileNotFoundError)
UpdateProperty(content, key, new_value) ==
    WriteLines(UpdatedLines(content, key, new_value))

\* ------------------------------------------------------------------------
\* Bounds and inputs of the workflow model
\* ------------------------------------------------------------------------

\* timestamps (seconds) the clock can show; two runs may fall in the same second
MaxClock == 2
\* git operations that fail for an outside reason in one behaviour
MaxFaults == 2
\* consecutive runs (of main or of execute) in a behaviour of SpecRerun
MaxRuns == 2

\* config.BRANCH, and the branch_prefix default of execute
BRANCH == "main"
BranchPrefix == "db-update"
\* another local branch the user may have checked out
WorkBranch == "work"

\* f"{branch_prefix}-{timestamp}"
FeatureName(t) == BranchPrefix \o "-" \o ToString(t)
FeatureNames == {FeatureName(t) : t \in 1..MaxClock}
BranchNames == {BRANCH, WorkBranch} \cup FeatureNames
NoBranch == "None"

\* property_key argument, and the new_value arguments explored
KEY == <<"b">>
Values == {<<"9">>, <<"9", " ">>}

\* contents of the properties file in the first commit of the repository
InitFiles == {Absent, <<"b", "=", "2", NL>>, <<"b", "=", "9", NL>>, <<"b", "=", "9", " ", NL>>}
\* content of the properties file in a commit the remote is ahead by
AheadFile == <<"#", "c", NL, "b", "=", "7", NL>>

\* Files of the working directory: the properties file, another tracked file,
\* and a file that the repository does not track.
Files == {"props", "other", "new"}
PROPERTIES_FILE == "props"

\* what a conflict leaves in a conflicted file
Conflicted == <<"<<<<<<<">>

\* names that config.py defines
ConfigAttrs == {"REPO_URL", "BRANCH", "PROPERTIES_FILE", "AWS_REGION", "AWS_SECRET_NAME",
                "AWS_PROFILE", "AWS_SECRET_JSON_KEY", "TARGET_PROPERTY_KEY",
                "COMMIT_MESSAGE", "GITHUB_USERNAME", "GITHUB_TOKEN", "WORKING_DIR"}

\* outcomes of the secret store for one fetch
SecretKinds == {"client_error", "binary", "empty", "text"}

EmptyTree == [f \in Files |-> Absent]
BaseTree(p) == [f \in Files |-> IF f = "props" THEN p
                                ELSE IF f = "other" THEN <<"o1">> ELSE Absent]

\* A commit is the sequence of the trees of its history, oldest first (history is
\* linear: every merge of the workflow is a fast-forward); <<>> is "no commit".
NoCommit == <<>>
TreeOf(c) == IF c = NoCommit THEN EmptyTree ELSE c[Len(c)]
\* commit a is commit b or one of its ancestors
IsAncestor(a, b) == Len(a) <= Len(b) /\ SubSeq(b, 1, Len(a)) = a

VARIABLES
    pc,               \* position in main / execute / _commit_and_push / _rollback
    caller,           \* "main" or "api": who runs
    secret,           \* outcome of the secret store in this run
    new_value,        \* the stored secret string, new_value argument of execute
    property_key,     \* property_key argument
    current_value,    \* what _read_property returned last
    dry_run,          \* dry_run argument
    creds,            \* username and token are both non-empty
    exitCode,         \* main's outcome: "none", "0", "1" or "raised"
    result,           \* UpdateResult returned by execute, or NoResult
    repo,             \* self.repo is not None
    original_branch,  \* self._original_branch
    stash_created,    \* self._stash_created
    feature_branch,   \* local feature_branch of _commit_and_push
    exc,              \* str(e) of the exception being propagated, "none" if none
    gitDir,           \* working_dir/.git exists
    HEAD,             \* checked-out local branch
    branches,         \* local branch -> commit
    index,            \* staging area
    wt,               \* working tree
    stash,            \* stash stack, newest first
    merging,          \* an unresolved merge is in progress
    originUrl,        \* "plain" or "creds": URL of remote origin in .git/config
    remote,           \* remote branch -> commit
    clock,            \* current timestamp
    runs,             \* runs started so far
    budget,           \* runs the behaviour may start
    faults,           \* failures injected so far
    ops,              \* operations performed in this run
    pops,             \* `git stash pop` attempts in this call
    prev,             \* caller, dry_run, ops and result of the run before this one
    pre,              \* snapshot taken when execute is called
    preTx             \* snapshot taken when _commit_and_push is called

vars == <<pc, caller, secret, new_value, property_key, current_value, dry_run, creds, exitCode, result, repo,
          original_branch, stash_created, feature_branch, exc, gitDir, HEAD,
          branches, index, wt, stash, merging, originUrl, remote,
          clock, runs, budget, faults, ops, pops, prev, pre, preTx>>

argVars == <<caller, secret, new_value, property_key, dry_run, creds>>
selfVars == <<repo, original_branch, stash_created, feature_branch>>
refVars == <<gitDir, HEAD, branches, merging, originUrl>>
treeVars == <<index, wt, stash>>
histVars == <<runs, budget, prev, pre, preTx>>

NoResult == [success |-> FALSE, error |-> "unset", updated |-> FALSE, branch_name |-> "unset"]
\* UpdateResult(success, error=None, updated=False, branch_name=None)
UpdateResult(s, e, u, b) == [success |-> s, error |-> e, updated |-> u, branch_name |-> b]

\* what is kept of a run once the next one starts
RunSummary == [caller |-> caller, dry_run |-> dry_run, ops |-> ops, result |-> result]

Snapshot == [gitDir |-> gitDir, HEAD |-> HEAD, branches |-> branches, index |-> index,
             wt |-> wt, stash |-> stash, remote |-> remote, originUrl |-> originUrl]

\* ------------------------------------------------------------------------
\* git, as far as the workflow uses it
\* ------------------------------------------------------------------------

Tip(b) == branches[b]
HeadTree == TreeOf(Tip(HEAD))

Untracked(f) == index[f] = Absent /\ wt[f] # Absent
HasUntracked == \E f \in Files : Untracked(f)
WtDirty == \E f \in Files : index[f] # Absent /\ wt[f] # index[f]
IndexDirty == index # HeadTree
\* Repo.is_dirty(index=True, working_tree=True, untracked_files=u)
IsDirty(u) == IndexDirty \/ WtDirty \/ (u /\ HasUntracked)

\* file f carries a local (staged or unstaged) change
LocalChange(f) == index[f] # HeadTree[f] \/ (index[f] # Absent /\ wt[f] # index[f])

\* `git checkout <b>` can switch: the branch exists and no local change or
\* untracked file would be overwritten
CanCheckout(b) ==
    /\ Tip(b) # NoCommit
    /\ \A f \in Files :
          /\ LocalChange(f) => TreeOf(Tip(b))[f] = HeadTree[f]
          /\ Untracked(f) => TreeOf(Tip(b))[f] = Absent

\* index and working tree after the checked-out commit moved to commit c
MovedIndex(c) == [f \in Files |-> IF LocalChange(f) THEN index[f] ELSE TreeOf(c)[f]]
MovedWt(c) ==
    [f \in Files |-> IF LocalChange(f) \/ Untracked(f) THEN wt[f] ELSE TreeOf(c)[f]]

\* `git checkout -- .`: every path of the index is written to the working tree
DiscardWt == [f \in Files |-> IF index[f] # Absent THEN index[f] ELSE wt[f]]

\* `git stash push` (without -u) saves an entry only for changes to tracked files
StashSaves == IndexDirty \/ WtDirty
StashEntry ==
    [base |-> HeadTree,
     saved |-> [f \in Files |-> IF Untracked(f) THEN HeadTree[f] ELSE wt[f]],
     branch |-> HEAD, by |-> "sync"]
StashedWt == [f \in Files |-> IF Untracked(f) THEN wt[f] ELSE HeadTree[f]]

\* `git stash pop` of entry e: the files the entry changes must be locally clean;
\* a file changed both in the entry and since its base is left conflicted, and
\* then the pop reports failure and keeps the entry
PopTouched(e) == {f \in Files : e.saved[f] # e.base[f]}
PopApplies(e) == \A f \in PopTouched(e) : wt[f] = HeadTree[f] /\ index[f] = HeadTree[f]
PopConflicts(e) ==
    \E f \in PopTouched(e) : HeadTree[f] # e.base[f] /\ HeadTree[f] # e.saved[f]
PoppedWt(e) ==
    [f \in Files |-> IF f \in PopTouched(e)
                     THEN (IF HeadTree[f] = e.base[f] \/ HeadTree[f] = e.saved[f]
                           THEN e.saved[f] ELSE Conflicted)
                     ELSE wt[f]]

\* `git push origin <b>` that reaches the remote: a non-fast-forward update is
\* rejected, which Remote.push reports in its return value and not by raising
PushAccepted(b) == IsAncestor(remote[b], Tip(b))
Pushed(b) == IF PushAccepted(b) THEN [remote EXCEPT ![b] = Tip(b)] ELSE remote

\* ------------------------------------------------------------------------
\* Initial states
\* ------------------------------------------------------------------------

LocalKinds == {"absent", "main", "work"}
DirtKinds == {"clean", "tracked", "untracked"}

InitRepo(file0, ahead, local, dirt, prestash) ==
    LET c1 == <<BaseTree(file0)>>
        c2 == <<BaseTree(file0), BaseTree(AheadFile)>>
        head == IF local = "work" THEN WorkBranch ELSE BRANCH
        tree == IF local = "absent" THEN EmptyTree ELSE BaseTree(file0)
    IN  /\ gitDir = (local # "absent")
        /\ HEAD = head
        /\ branches = [b \in BranchNames |->
                          IF local = "absent" THEN NoCommit
                          ELSE IF b = BRANCH \/ (b = WorkBranch /\ local = "work") THEN c1
                          ELSE NoCommit]
        /\ index = tree
        /\ wt = IF dirt = "tracked" THEN [tree EXCEPT !["other"] = <<"o2">>]
                ELSE IF dirt = "untracked" THEN [tree EXCEPT !["new"] = <<"n1">>]
                ELSE tree
        /\ stash = IF prestash
                   THEN <<[base |-> tree, saved |-> [tree EXCEPT !["other"] = <<"o9">>],
                           branch |-> head, by |-> "user"]>>
                   ELSE <<>>
        /\ remote = [b \in BranchNames |->
                        IF b = BRANCH THEN (IF ahead THEN c2 ELSE c1) ELSE NoCommit]

InitState ==
    /\ pc = "idle"
    /\ caller = "api"
    /\ secret = "text"
    /\ new_value \in Values
    /\ property_key = KEY
    /\ current_value = None
    /\ dry_run = FALSE
    /\ creds = FALSE
    /\ exitCode = "none"
    /\ result = NoResult
    /\ repo = FALSE
    /\ original_branch = NoBranch
    /\ stash_created = FALSE
    /\ feature_branch = NoBranch
    /\ exc = "none"
    /\ \E file0 \in InitFiles, ahead \in BOOLEAN, local \in LocalKinds,
          dirt \in DirtKinds, prestash \in BOOLEAN :
          /\ (local = "absent") => (dirt = "clean" /\ ~prestash)
          /\ InitRepo(file0, ahead, local, dirt, prestash)
    /\ merging = FALSE
    /\ originUrl = "plain"
    /\ clock = 1
    /\ runs = 0
    /\ faults = 0
    /\ ops = {}
    /\ pops = 0
    /\ prev = RunSummary
    /\ pre = Snapshot
    /\ preTx = Snapshot

\* ------------------------------------------------------------------------
\* main.py: main, and GetSecret.execute
\* ------------------------------------------------------------------------

\* GetSecret.execute(json_key): the SecretResult for what the store answers
SecretResult(kind, value) ==
    IF kind = "client_error" THEN [success |-> FALSE, value |-> None]
    ELSE IF kind = "binary" THEN [success |-> FALSE, value |-> None]
    ELSE IF kind = "empty" THEN [success |-> TRUE, value |-> <<>>]
    ELSE [success |-> TRUE, value |-> value]

\* `not secret_result.value`
Falsy(v) == v = None \/ v = <<>>

\* main without the `not secret_result.value` test
SecretAcceptedWhenSuccess(r) == r.success

\* main proceeds to step 2 with this secret result
SecretAccepted(r) == r.success /\ ~Falsy(r.value)

\* config.<name> evaluates
ConfigHas(name) == name \in ConfigAttrs

\* a new process starts
StartRun(who) ==
    /\ pc = "idle"
    /\ runs < budget
    /\ runs' = runs + 1
    /\ caller' = who
    /\ exitCode' = "none"
    /\ result' = NoResult
    /\ repo' = FALSE
    /\ original_branch' = NoBranch
    /\ stash_created' = FALSE
    /\ feature_branch' = NoBranch
    /\ exc' = "none"
    /\ ops' = {}
    /\ pops' = 0
    /\ prev' = RunSummary
    /\ pre' = Snapshot
    /\ preTx' = Snapshot
    /\ UNCHANGED <<new_value, property_key, current_value, refVars, treeVars, remote,
                   clock, budget, faults>>

\* main(dry_run, verbose) up to step 1
MainStart ==
    /\ StartRun("main")
    /\ \E d \in BOOLEAN, k \in SecretKinds : dry_run' = d /\ secret' = k
    /\ creds' = FALSE
    /\ pc' = "main_secret"

\* main, step 1: get_secret.execute and the two checks of its result
MainGetSecret ==
    /\ pc = "main_secret"
    /\ IF SecretAccepted(SecretResult(secret, new_value))
       THEN pc' = "main_update" /\ UNCHANGED exitCode
       ELSE pc' = "exit" /\ exitCode' = "1"
    /\ UNCHANGED <<argVars, current_value, result, selfVars, exc, refVars, treeVars, remote, clock,
                   faults, ops, pops, histVars>>

\* main, step 2: the arguments of update_db.execute are evaluated, then the call
MainCallUpdate ==
    /\ pc = "main_update"
    /\ IF ConfigHas("PROPERTIES_FILE") /\ ConfigHas("DB_PROPERTY_KEY")
          /\ ConfigHas("GITHUB_USERNAME") /\ ConfigHas("GITHUB_TOKEN")
          /\ ConfigHas("BRANCH_PREFIX")
       THEN pc' = "clone_or_pull" /\ UNCHANGED exitCode
       ELSE pc' = "exit" /\ exitCode' = "raised"
    /\ UNCHANGED <<argVars, current_value, result, selfVars, exc, refVars, treeVars, remote, clock,
                   faults, ops, pops, histVars>>

\* the process has ended
MainExit ==
    /\ pc = "exit"
    /\ pc' = "idle"
    /\ UNCHANGED <<argVars, current_value, exitCode, result, selfVars, exc, refVars, treeVars, remote,
                   clock, faults, ops, pops, histVars>>

\* ------------------------------------------------------------------------
\* UpdateDbConnection
\* ------------------------------------------------------------------------

\* a caller constructs UpdateDbConnection and calls execute
ExecuteStart ==
    /\ StartRun("api")
    /\ \E d \in BOOLEAN, c \in BOOLEAN : dry_run' = d /\ creds' = c
    /\ secret' = "text"
    /\ pc' = "clone_or_pull"

\* _restore_stash without `self._stash_created = False`
RestoreStashKeepingFlag ==
    IF stash_created
    THEN /\ pops' = pops + 1
         /\ IF stash # <<>> /\ PopApplies(Head(stash))
            THEN /\ wt' = PoppedWt(Head(stash))
                 /\ stash' = IF PopConflicts(Head(stash)) THEN stash ELSE Tail(stash)
            ELSE UNCHANGED <<wt, stash>>
         /\ UNCHANGED stash_created
    ELSE UNCHANGED <<stash_created, pops, wt, stash>>

\* _restore_stash
RestoreStash ==
    IF stash_created
    THEN /\ stash_created' = FALSE
         /\ pops' = pops + 1
         /\ IF stash # <<>> /\ PopApplies(Head(stash))
            THEN /\ wt' = PoppedWt(Head(stash))
                 /\ stash' = IF PopConflicts(Head(stash)) THEN stash ELSE Tail(stash)
            ELSE UNCHANGED <<wt, stash>>
    ELSE UNCHANGED <<stash_created, pops, wt, stash>>

\* an operation fails although git could have performed it
InjectFault == faults < MaxFaults /\ faults' = faults + 1

\* a git command raises GitCommandError: it cannot be performed (can is false),
\* or it fails for an outside reason (network, authentication, file system)
GitFails(can) == IF can THEN InjectFault ELSE UNCHANGED faults

\* _clone_or_pull: git_dir.exists(), Repo(working_dir), active_branch
OpenRepo ==
    /\ pc = "clone_or_pull"
    /\ IF gitDir
       THEN repo' = TRUE /\ original_branch' = HEAD /\ pc' = "stash"
       ELSE UNCHANGED <<repo, original_branch>> /\ pc' = "clone"
    /\ UNCHANGED <<argVars, current_value, exitCode, result, stash_created, feature_branch, exc, refVars,
                   treeVars, remote, clock, faults, ops, pops, histVars>>

\* _clone_or_pull: Repo.clone_from
Clone ==
    /\ pc = "clone"
    /\ \/ /\ remote[BRANCH] # NoCommit
          /\ repo' = TRUE
          /\ gitDir' = TRUE
          /\ HEAD' = BRANCH
          /\ branches' = [b \in BranchNames |-> IF b = BRANCH THEN remote[BRANCH] ELSE NoCommit]
          /\ index' = TreeOf(remote[BRANCH])
          /\ wt' = TreeOf(remote[BRANCH])
          /\ ops' = ops \cup {"clone"}
          /\ pc' = "read"
          /\ UNCHANGED <<exc, faults>>
       \/ /\ GitFails(remote[BRANCH] # NoCommit)
          /\ exc' = "Failed to clone"
          /\ ops' = ops \cup {"clone_failed"}
          /\ pc' = "except"
          /\ UNCHANGED <<repo, gitDir, HEAD, branches, index, wt>>
    /\ UNCHANGED <<argVars, current_value, exitCode, result, original_branch, stash_created, feature_branch,
                   stash, merging, originUrl, remote, clock, pops, histVars>>

\* _stash_changes, called by _clone_or_pull
StashChanges ==
    /\ pc = "stash"
    /\ \/ /\ IsDirty(TRUE)
          /\ IF StashSaves
             THEN /\ stash' = <<StashEntry>> \o stash
                  /\ index' = HeadTree
                  /\ wt' = StashedWt
             ELSE UNCHANGED treeVars
          /\ stash_created' = TRUE
          /\ ops' = ops \cup {"stash"}
          /\ pc' = "fetch"
          /\ UNCHANGED faults
       \/ /\ IsDirty(TRUE)
          /\ InjectFault
          /\ ops' = ops \cup {"stash_failed"}
          /\ pc' = "sync_failed"
          /\ UNCHANGED <<treeVars, stash_created>>
       \/ /\ ~IsDirty(TRUE)
          /\ pc' = "fetch"
          /\ UNCHANGED <<treeVars, stash_created, ops, faults>>
    /\ UNCHANGED <<argVars, current_value, exitCode, result, repo, original_branch, feature_branch, exc,
                   refVars, remote, clock, pops, histVars>>

\* _clone_or_pull: origin.fetch()
Fetch ==
    /\ pc = "fetch"
    /\ \/ pc' = "sync_checkout" /\ ops' = ops \cup {"fetch"} /\ UNCHANGED faults
       \/ InjectFault /\ pc' = "sync_failed" /\ ops' = ops \cup {"fetch_failed"}
    /\ UNCHANGED <<argVars, current_value, exitCode, result, selfVars, exc, refVars, treeVars, remote,
                   clock, pops, histVars>>

\* _clone_or_pull: git checkout <self.branch>
SyncCheckout ==
    /\ pc = "sync_checkout"
    /\ \/ /\ CanCheckout(BRANCH)
          /\ HEAD' = BRANCH
          /\ index' = MovedIndex(Tip(BRANCH))
          /\ wt' = MovedWt(Tip(BRANCH))
          /\ ops' = ops \cup {"checkout"}
          /\ pc' = "pull"
          /\ UNCHANGED faults
       \/ /\ GitFails(CanCheckout(BRANCH))
          /\ ops' = ops \cup {"checkout_failed"}
          /\ pc' = "sync_failed"
          /\ UNCHANGED <<HEAD, index, wt>>
    /\ UNCHANGED <<argVars, current_value, exitCode, result, selfVars, exc, gitDir, branches, merging,
                   originUrl, stash, remote, clock, pops, histVars>>

\* `git pull --rebase origin <branch>` can run: no tracked change is pending, and
\* the local branch and the remote branch have not diverged
CanPull ==
    /\ ~IndexDirty /\ ~WtDirty
    /\ remote[BRANCH] # NoCommit
    /\ IsAncestor(Tip(HEAD), remote[BRANCH]) \/ IsAncestor(remote[BRANCH], Tip(HEAD))
    /\ \A f \in Files : Untracked(f) /\ IsAncestor(Tip(HEAD), remote[BRANCH])
                           => TreeOf(remote[BRANCH])[f] = Absent

\* the commit the local branch is at after the pull
PulledTip == IF IsAncestor(Tip(HEAD), remote[BRANCH]) THEN remote[BRANCH] ELSE Tip(HEAD)

\* _clone_or_pull: git pull --rebase origin <self.branch>
Pull ==
    /\ pc = "pull"
    /\ \/ /\ CanPull
          /\ branches' = [branches EXCEPT ![HEAD] = PulledTip]
          /\ index' = MovedIndex(PulledTip)
          /\ wt' = MovedWt(PulledTip)
          /\ ops' = ops \cup {"pull"}
          /\ pc' = "read"
          /\ UNCHANGED faults
       \/ /\ GitFails(CanPull)
          /\ ops' = ops \cup {"pull_failed"}
          /\ pc' = "sync_failed"
          /\ UNCHANGED <<branches, index, wt>>
    /\ UNCHANGED <<argVars, current_value, exitCode, result, selfVars, exc, gitDir, HEAD, merging,
                   originUrl, stash, remote, clock, pops, histVars>>

\* _clone_or_pull: except GitCommandError: _restore_stash(); raise Exception
SyncFailed ==
    /\ pc = "sync_failed"
    /\ RestoreStash
    /\ exc' = "Failed to pull"
    /\ pc' = "except"
    /\ UNCHANGED <<argVars, current_value, exitCode, result, repo, original_branch, feature_branch,
                   refVars, index, remote, clock, faults, ops, histVars>>

\* the unchanged check left out: only a dry run skips the update
SkipsUpdateOnlyDryRun(cur, new, dry) == dry

\* the dry-run check left out: only an unchanged value skips the update
SkipsUpdateIgnoringDryRun(cur, new, dry) == cur = new

\* execute returns without updating: `current_value == new_value`, or `dry_run`
\* (strings are compared exactly, None differs from every string)
SkipsUpdate(cur, new, dry) == cur = new \/ dry

\* execute: _read_property, the unchanged check and the dry-run check
ReadCheck ==
    /\ pc = "read"
    /\ current_value' = ReadProperty(wt[PROPERTIES_FILE], property_key)
    /\ IF SkipsUpdate(current_value', new_value, dry_run)
       THEN /\ RestoreStash
            /\ result' = UpdateResult(TRUE, "None", FALSE, NoBranch)
            /\ pc' = "return"
       ELSE /\ pc' = "update"
            /\ UNCHANGED <<result, stash_created, pops, wt, stash>>
    /\ ops' = ops \cup {"read"}
    /\ UNCHANGED <<caller, secret, new_value, property_key, dry_run, creds, exitCode, repo, original_branch, feature_branch, exc, refVars,
                   index, remote, clock, faults, histVars>>

\* execute: _update_property
UpdateStep ==
    /\ pc = "update"
    /\ IF wt[PROPERTIES_FILE] = Absent
       THEN /\ exc' = "File not found"
            /\ ops' = ops \cup {"write_failed"}
            /\ pc' = "except"
            /\ UNCHANGED wt
       ELSE /\ wt' = [wt EXCEPT ![PROPERTIES_FILE] = UpdateProperty(@, property_key, new_value)]
            /\ ops' = ops \cup {"write"}
            /\ pc' = "add"
            /\ UNCHANGED exc
    /\ UNCHANGED <<argVars, current_value, exitCode, result, selfVars, refVars, index, stash, remote,
                   clock, faults, pops, histVars>>

\* the `repo.is_dirty()` test taken as always true
StagedChangesAssumed(staged) == TRUE

\* repo.is_dirty() right after `git add -A`: the index differs from the last commit
StagedChanges(staged) == staged # HeadTree

\* _commit_and_push: git add -A, and the is_dirty() check
StageAll ==
    /\ pc = "add"
    /\ preTx' = Snapshot
    /\ \/ /\ index' = wt
          /\ ops' = ops \cup {"add"}
          /\ pc' = IF StagedChanges(index') THEN "set_url" ELSE "published"
          /\ UNCHANGED <<exc, faults>>
       \/ /\ InjectFault
          /\ exc' = "git add failed"
          /\ ops' = ops \cup {"add_failed"}
          /\ pc' = "except"
          /\ UNCHANGED index
    /\ UNCHANGED <<argVars, current_value, exitCode, result, selfVars, refVars, wt, stash, remote, clock,
                   pops, runs, budget, prev, pre>>

\* _commit_and_push: git remote set-url origin <url with username:token>
SetUrl ==
    /\ pc = "set_url"
    /\ \/ /\ creds
          /\ originUrl' = "creds"
          /\ ops' = ops \cup {"set_url"}
          /\ pc' = "branch"
          /\ UNCHANGED faults
       \/ /\ creds
          /\ InjectFault
          /\ ops' = ops \cup {"set_url_failed"}
          /\ pc' = "rollback"
          /\ UNCHANGED originUrl
       \/ /\ ~creds
          /\ pc' = "branch"
          /\ UNCHANGED <<originUrl, ops, faults>>
    /\ UNCHANGED <<argVars, current_value, exitCode, result, selfVars, exc, gitDir, HEAD, branches,
                   merging, treeVars, remote, clock, pops, histVars>>

\* _commit_and_push: the timestamped name, and git checkout -b <feature_branch>
CreateBranch ==
    /\ pc = "branch"
    /\ \E t \in clock..MaxClock :
          /\ clock' = t
          /\ feature_branch' = FeatureName(t)
          /\ \/ /\ Tip(FeatureName(t)) = NoCommit
                /\ branches' = [branches EXCEPT ![FeatureName(t)] = Tip(HEAD)]
                /\ HEAD' = FeatureName(t)
                /\ ops' = ops \cup {"branch"}
                /\ pc' = "commit"
                /\ UNCHANGED faults
             \/ /\ GitFails(Tip(FeatureName(t)) = NoCommit)
                /\ ops' = ops \cup {"branch_failed"}
                /\ pc' = "rollback"
                /\ UNCHANGED <<branches, HEAD>>
    /\ UNCHANGED <<argVars, current_value, exitCode, result, repo, original_branch, stash_created, exc,
                   gitDir, merging, originUrl, treeVars, remote, pops, histVars>>

\* _commit_and_push: repo.index.commit(message)
Commit ==
    /\ pc = "commit"
    /\ \/ /\ branches' = [branches EXCEPT ![HEAD] = Append(Tip(HEAD), index)]
          /\ ops' = ops \cup {"commit"}
          /\ pc' = "push_feature"
          /\ UNCHANGED <<exc, faults>>
       \/ /\ InjectFault
          /\ \/ pc' = "rollback" /\ UNCHANGED exc
             \/ pc' = "except" /\ exc' = "commit failed"
          /\ ops' = ops \cup {"commit_failed"}
          /\ UNCHANGED branches
    /\ UNCHANGED <<argVars, current_value, exitCode, result, selfVars, gitDir, HEAD, merging, originUrl,
                   treeVars, remote, clock, pops, histVars>>

\* _commit_and_push going on when the push of the feature branch raises
PushFeatureSwallowingError ==
    /\ pc = "push_feature"
    /\ \/ /\ remote' = Pushed(feature_branch)
          /\ ops' = ops \cup {IF PushAccepted(feature_branch) THEN "push_feature"
                               ELSE "push_feature_rejected"}
          /\ pc' = "checkout_target"
          /\ UNCHANGED faults
       \/ /\ InjectFault
          /\ ops' = ops \cup {"push_feature_failed"}
          /\ pc' = "checkout_target"
          /\ UNCHANGED remote
    /\ UNCHANGED <<argVars, current_value, exitCode, result, selfVars, exc, refVars, treeVars, clock,
                   pops, histVars>>

\* _commit_and_push: origin.push(feature_branch)
PushFeature ==
    /\ pc = "push_feature"
    /\ \/ /\ remote' = Pushed(feature_branch)
          /\ ops' = ops \cup {IF PushAccepted(feature_branch) THEN "push_feature"
                               ELSE "push_feature_rejected"}
          /\ pc' = "checkout_target"
          /\ UNCHANGED faults
       \/ /\ InjectFault
          /\ ops' = ops \cup {"push_feature_failed"}
          /\ pc' = "rollback"
          /\ UNCHANGED remote
    /\ UNCHANGED <<argVars, current_value, exitCode, result, selfVars, exc, refVars, treeVars, clock,
                   pops, histVars>>

\* _commit_and_push: git checkout <self.branch>
CheckoutTarget ==
    /\ pc = "checkout_target"
    /\ \/ /\ CanCheckout(BRANCH)
          /\ HEAD' = BRANCH
          /\ index' = MovedIndex(Tip(BRANCH))
          /\ wt' = MovedWt(Tip(BRANCH))
          /\ ops' = ops \cup {"checkout_target"}
          /\ pc' = "merge"
          /\ UNCHANGED faults
       \/ /\ GitFails(CanCheckout(BRANCH))
          /\ ops' = ops \cup {"checkout_target_failed"}
          /\ pc' = "rollback"
          /\ UNCHANGED <<HEAD, index, wt>>
    /\ UNCHANGED <<argVars, current_value, exitCode, result, selfVars, exc, gitDir, branches, merging,
                   originUrl, stash, remote, clock, pops, histVars>>

\* `git merge <b> --no-edit` fast-forwards
CanMerge(b) ==
    /\ Tip(b) # NoCommit
    /\ IsAncestor(Tip(HEAD), Tip(b))
    /\ \A f \in Files : LocalChange(f) \/ Untracked(f) => TreeOf(Tip(b))[f] = HeadTree[f]

\* _commit_and_push: git merge <feature_branch> --no-edit
Merge ==
    /\ pc = "merge"
    /\ \/ /\ CanMerge(feature_branch)
          /\ branches' = [branches EXCEPT ![HEAD] = Tip(feature_branch)]
          /\ index' = MovedIndex(Tip(feature_branch))
          /\ wt' = MovedWt(Tip(feature_branch))
          /\ ops' = ops \cup {"merge"}
          /\ pc' = "push_target"
          /\ UNCHANGED <<merging, faults>>
       \/ \* the merge stops with CONFLICT
          /\ InjectFault
          /\ merging' = TRUE
          /\ wt' = [wt EXCEPT ![PROPERTIES_FILE] = Conflicted]
          /\ ops' = ops \cup {"merge_conflict"}
          /\ pc' = "merge_abort"
          /\ UNCHANGED <<branches, index>>
       \/ \* the merge fails for another reason
          /\ GitFails(CanMerge(feature_branch))
          /\ ops' = ops \cup {"merge_failed"}
          /\ pc' = "rollback"
          /\ UNCHANGED <<branches, index, wt, merging>>
    /\ UNCHANGED <<argVars, current_value, exitCode, result, selfVars, exc, gitDir, HEAD, originUrl,
                   stash, remote, clock, pops, histVars>>

\* the conflict handler without `git merge --abort`
MergeAbortLeftOut ==
    /\ pc = "merge_abort"
    /\ exc' = "Merge conflict - manual resolution required"
    /\ pc' = "except"
    /\ UNCHANGED <<argVars, current_value, exitCode, result, selfVars, refVars, treeVars, remote,
                   clock, faults, ops, pops, histVars>>

\* _commit_and_push: 'CONFLICT' in str(e): git merge --abort, raise Exception
MergeAbort ==
    /\ pc = "merge_abort"
    /\ \/ /\ merging' = FALSE
          /\ wt' = [wt EXCEPT ![PROPERTIES_FILE] = index[PROPERTIES_FILE]]
          /\ ops' = ops \cup {"merge_abort"}
          /\ exc' = "Merge conflict - manual resolution required"
          /\ pc' = "except"
          /\ UNCHANGED faults
       \/ \* the abort raises GitCommandError, which the outer handler catches
          /\ InjectFault
          /\ ops' = ops \cup {"merge_abort_failed"}
          /\ pc' = "rollback"
          /\ UNCHANGED <<merging, wt, exc>>
    /\ UNCHANGED <<argVars, current_value, exitCode, result, selfVars, gitDir, HEAD, branches, originUrl,
                   index, stash, remote, clock, pops, histVars>>

\* _commit_and_push going on when the push of the target branch raises
PushTargetSwallowingError ==
    /\ pc = "push_target"
    /\ \/ /\ remote' = Pushed(BRANCH)
          /\ ops' = ops \cup {IF PushAccepted(BRANCH) THEN "push_target"
                               ELSE "push_target_rejected"}
          /\ pc' = "published"
          /\ UNCHANGED faults
       \/ /\ InjectFault
          /\ ops' = ops \cup {"push_target_failed"}
          /\ pc' = "published"
          /\ UNCHANGED remote
    /\ UNCHANGED <<argVars, current_value, exitCode, result, selfVars, exc, refVars, treeVars, clock,
                   pops, histVars>>

\* _commit_and_push: origin.push(self.branch), return feature_branch
PushTarget ==
    /\ pc = "push_target"
    /\ \/ /\ remote' = Pushed(BRANCH)
          /\ ops' = ops \cup {IF PushAccepted(BRANCH) THEN "push_target"
                               ELSE "push_target_rejected"}
          /\ pc' = "published"
          /\ UNCHANGED faults
       \/ /\ InjectFault
          /\ ops' = ops \cup {"push_target_failed"}
          /\ pc' = "rollback"
          /\ UNCHANGED remote
    /\ UNCHANGED <<argVars, current_value, exitCode, result, selfVars, exc, refVars, treeVars, clock,
                   pops, histVars>>

\* execute after _commit_and_push returned: _restore_stash, UpdateResult
Published ==
    /\ pc = "published"
    /\ RestoreStash
    /\ result' = UpdateResult(TRUE, "None", TRUE, feature_branch)
    /\ pc' = "return"
    /\ UNCHANGED <<argVars, current_value, exitCode, repo, original_branch, feature_branch, exc, refVars,
                   index, remote, clock, faults, ops, histVars>>

\* `git checkout -- .` can restore every path: none is unmerged
CanDiscard == ~merging

\* _rollback: git checkout -- .
RollbackDiscard ==
    /\ pc = "rollback"
    /\ \/ /\ CanDiscard
          /\ wt' = DiscardWt
          /\ ops' = ops \cup {"rb_discard"}
          /\ pc' = "rb_checkout"
          /\ UNCHANGED <<exc, faults>>
       \/ /\ GitFails(CanDiscard)
          /\ exc' = "Failed to commit/push"
          /\ ops' = ops \cup {"rb_discard_failed"}
          /\ pc' = "except"
          /\ UNCHANGED wt
    /\ UNCHANGED <<argVars, current_value, exitCode, result, selfVars, refVars, index, stash, remote,
                   clock, pops, histVars>>

\* the branch _rollback returns to
RollbackTarget == IF original_branch # NoBranch THEN original_branch ELSE BRANCH

\* _rollback: git checkout <original branch>
RollbackCheckout ==
    /\ pc = "rb_checkout"
    /\ \/ /\ CanCheckout(RollbackTarget)
          /\ HEAD' = RollbackTarget
          /\ index' = MovedIndex(Tip(RollbackTarget))
          /\ wt' = MovedWt(Tip(RollbackTarget))
          /\ ops' = ops \cup {"rb_checkout"}
          /\ pc' = "rb_delete"
          /\ UNCHANGED <<exc, faults>>
       \/ /\ GitFails(CanCheckout(RollbackTarget))
          /\ exc' = "Failed to commit/push"
          /\ ops' = ops \cup {"rb_checkout_failed"}
          /\ pc' = "except"
          /\ UNCHANGED <<HEAD, index, wt>>
    /\ UNCHANGED <<argVars, current_value, exitCode, result, selfVars, gitDir, branches, merging,
                   originUrl, stash, remote, clock, pops, histVars>>

\* `git branch -D <b>` can delete: the branch exists and is not checked out
CanDelete(b) == b # NoBranch /\ Tip(b) # NoCommit /\ HEAD # b

\* _rollback without the inner try around `git branch -D`: its failure ends the rollback
RollbackDeleteRaising ==
    /\ pc = "rb_delete"
    /\ \/ /\ feature_branch # NoBranch
          /\ CanDelete(feature_branch)
          /\ branches' = [branches EXCEPT ![feature_branch] = NoCommit]
          /\ ops' = ops \cup {"rb_delete"}
          /\ UNCHANGED faults
          /\ pc' = "rb_restore"
       \/ /\ feature_branch # NoBranch
          /\ GitFails(CanDelete(feature_branch))
          /\ ops' = ops \cup {"rb_delete_failed"}
          /\ pc' = "except"
          /\ UNCHANGED branches
       \/ /\ feature_branch = NoBranch
          /\ pc' = "rb_restore"
          /\ UNCHANGED <<branches, ops, faults>>
    /\ exc' = "Failed to commit/push"
    /\ UNCHANGED <<argVars, current_value, exitCode, result, selfVars, gitDir, HEAD, merging,
                   originUrl, treeVars, remote, clock, pops, histVars>>

\* _rollback: git branch -D <feature_branch>, GitCommandError swallowed
RollbackDelete ==
    /\ pc = "rb_delete"
    /\ \/ /\ feature_branch # NoBranch
          /\ CanDelete(feature_branch)
          /\ branches' = [branches EXCEPT ![feature_branch] = NoCommit]
          /\ ops' = ops \cup {"rb_delete"}
          /\ UNCHANGED faults
       \/ /\ feature_branch # NoBranch
          /\ GitFails(CanDelete(feature_branch))
          /\ ops' = ops \cup {"rb_delete_failed"}
          /\ UNCHANGED branches
       \/ /\ feature_branch = NoBranch
          /\ UNCHANGED <<branches, ops, faults>>
    /\ pc' = "rb_restore"
    /\ UNCHANGED <<argVars, current_value, exitCode, result, selfVars, exc, gitDir, HEAD, merging,
                   originUrl, treeVars, remote, clock, pops, histVars>>

\* _rollback: _restore_stash; then _commit_and_push raises Exception
RollbackRestore ==
    /\ pc = "rb_restore"
    /\ RestoreStash
    /\ exc' = "Failed to commit/push"
    /\ pc' = "except"
    /\ UNCHANGED <<argVars, current_value, exitCode, result, repo, original_branch, feature_branch,
                   refVars, index, remote, clock, faults, ops, histVars>>

\* execute: except Exception: _restore_stash, UpdateResult(success=False, error)
Except ==
    /\ pc = "except"
    /\ RestoreStash
    /\ result' = UpdateResult(FALSE, exc, FALSE, NoBranch)
    /\ exc' = "none"
    /\ pc' = "return"
    /\ UNCHANGED <<argVars, current_value, exitCode, repo, original_branch, feature_branch, refVars,
                   index, remote, clock, faults, ops, histVars>>

\* execute has returned to its caller; main maps the result to its exit code
Return ==
    /\ pc = "return"
    /\ IF caller = "main"
       THEN pc' = "exit" /\ exitCode' = (IF result.success THEN "0" ELSE "1")
       ELSE pc' = "idle" /\ UNCHANGED exitCode
    /\ UNCHANGED <<argVars, current_value, result, selfVars, exc, refVars, treeVars, remote, clock,
                   faults, ops, pops, histVars>>

Next ==
    \/ MainStart \/ MainGetSecret \/ MainCallUpdate \/ MainExit
    \/ ExecuteStart \/ OpenRepo \/ Clone \/ StashChanges \/ Fetch \/ SyncCheckout
    \/ Pull \/ SyncFailed \/ ReadCheck \/ UpdateStep
    \/ StageAll \/ SetUrl \/ CreateBranch \/ Commit \/ PushFeature \/ CheckoutTarget
    \/ Merge \/ MergeAbort \/ PushTarget \/ Published
    \/ RollbackDiscard \/ RollbackCheckout \/ RollbackDelete \/ RollbackRestore
    \/ Except \/ Return

\* one run from every initial state
Init == InitState /\ budget = 1
Spec == Init /\ [][Next]_vars

\* MaxRuns consecutive runs from every initial state
InitRerun == InitState /\ budget = MaxRuns
SpecRerun == InitRerun /\ [][Next]_vars

\* ------------------------------------------------------------------------
\* Properties of execute and main
\* ------------------------------------------------------------------------

\* the tags of the steps that change the file, the index, branches, commits,
\* the remote URL or the remote, whether the step succeeded or failed
WriteSteps ==
    {"write", "write_failed", "add", "add_failed", "set_url", "set_url_failed",
     "branch", "branch_failed", "commit", "commit_failed",
     "push_feature", "push_feature_failed", "push_feature_rejected",
     "checkout_target", "checkout_target_failed",
     "merge", "merge_conflict", "merge_failed", "merge_abort", "merge_abort_failed",
     "push_target", "push_target_failed", "push_target_rejected",
     "rb_discard", "rb_discard_failed", "rb_checkout", "rb_checkout_failed",
     "rb_delete", "rb_delete_failed"}

\* no feature branch has appeared or moved, locally or on the remote, and the
\* remote and its URL are as they were when execute was called
NothingPublished ==
    /\ remote = pre.remote
    /\ originUrl = pre.originUrl
    /\ \A f \in FeatureNames : branches[f] = pre.branches[f]

\* C1: when the value _read_property returns after _clone_or_pull equals
\* new_value, execute returns success=True, updated=False, and has not written
\* the file, staged, created a branch, committed, changed the remote URL or
\* pushed.
C1_UnchangedValueIsNoOp ==
    (pc = "return" /\ "read" \in ops /\ current_value = new_value) =>
        /\ result.success
        /\ ~result.updated
        /\ ops \cap WriteSteps = {}
        /\ NothingPublished

\* a non-dry-run call has returned after reading the value it was asked to set
C1_Witness ==
    /\ pc = "return"
    /\ ~dry_run
    /\ "read" \in ops
    /\ current_value = new_value
    /\ result = UpdateResult(TRUE, "None", FALSE, NoBranch)

\* C2: of two consecutive non-dry-run calls of execute with the same new_value,
\* with every git operation succeeding and the first call changing the file,
\* the first makes the one commit and the one feature branch, and the second
\* returns updated=False and makes neither.
C2_SecondCallChangesNothing ==
    (/\ pc = "return" /\ runs = 2
     /\ caller = "api" /\ prev.caller = "api"
     /\ ~dry_run /\ ~prev.dry_run
     /\ faults = 0
     /\ prev.result.success /\ prev.result.updated
     /\ result.success) =>
        /\ {"branch", "commit"} \subseteq prev.ops
        /\ ops \cap {"branch", "commit"} = {}
        /\ ~result.updated


\* _commit_and_push has staged and has ended, by returning or by raising
CommitAndPushEnded == "add" \in ops /\ pc \in {"published", "except"}

\* C3: whenever _commit_and_push ends after a failure at any point from staging
\* to the push of the target branch, either the remote target branch holds the
\* new commit, or branches, target branch tip, index and properties file of the
\* local repository and the branches of the remote are exactly as they were
\* before _commit_and_push began.
C3_PublishIsAtomic ==
    CommitAndPushEnded =>
        \/ /\ "commit" \in ops
           /\ remote[BRANCH] # preTx.remote[BRANCH]
           /\ TreeOf(remote[BRANCH])[PROPERTIES_FILE] = preTx.wt[PROPERTIES_FILE]
        \/ /\ branches = preTx.branches
           /\ index = preTx.index
           /\ wt[PROPERTIES_FILE] = preTx.wt[PROPERTIES_FILE]
           /\ remote = preTx.remote


\* the repository is present, on the configured branch, and not behind the remote
InSyncAtCall ==
    /\ pre.gitDir
    /\ pre.HEAD = BRANCH
    /\ IsAncestor(pre.remote[BRANCH], pre.branches[BRANCH])

C5_MergeConflictRollsBack ==
    (pc = "return" /\ "merge_conflict" \in ops) =>
        /\ "merge_abort" \in ops
        /\ ~merging
        /\ branches[feature_branch] = NoCommit
        /\ HEAD = RollbackTarget
        /\ {"rb_discard", "rb_checkout", "rb_delete"} \subseteq ops
        /\ ~result.success


\* a step of _clone_or_pull has failed
SyncStepFailed ==
    ops \cap {"stash_failed", "fetch_failed", "checkout_failed", "pull_failed"} # {}

\* the restores of this call so far: one if _stash_changes stashed, else none
RestoredOnce == pops = (IF "stash" \in ops THEN 1 ELSE 0)

\* C6: on every path by which execute returns, a stash made by _clone_or_pull
\* has had its restore attempted exactly once (never more, and none without a
\* stash), and _stash_created is False; when a step of _clone_or_pull fails
\* after the stash, the restore has been made before the failure reaches
\* execute's handler.
C6_StashRestoredOnce ==
    /\ pops <= 1
    /\ pc = "return" => ~stash_created /\ RestoredOnce
    /\ (pc = "except" /\ SyncStepFailed) => ~stash_created /\ RestoredOnce

\* a publish that stashed, failed and was rolled back has returned
C6_Witness ==
    /\ pc = "return"
    /\ "stash" \in ops
    /\ "rb_discard" \in ops
    /\ pops = 1
    /\ ~stash_created
    /\ ~result.success


\* C7: in a run of main whose secret retrieval fails (an error of the store, a
\* binary secret) or yields an empty value, main returns 1, and at no point of
\* the run is the repository opened, cloned, or any file or git state changed.
C7_NoSecretNoRepositoryWork ==
    (caller = "main" /\ secret \in {"client_error", "binary", "empty"}) =>
        /\ pc \in {"main_secret", "exit", "idle"}
        /\ pc = "exit" => exitCode = "1"
        /\ ops = {}
        /\ ~repo
        /\ Snapshot = pre

\* main has ended on an empty secret value
C7_Witness ==
    /\ caller = "main"
    /\ secret = "empty"
    /\ pc = "exit"
    /\ exitCode = "1"
    /\ ops = {}

\* C8: main ends with exit code 0 exactly when the secret was retrieved
\* non-empty and execute returned success=True, and with 1 when the secret
\* retrieval, the repository sync, the merge or a push failed: with a non-empty
\* secret, main calls execute and maps its result to the exit code.
C8_ExitCodeFollowsResult ==
    (caller = "main" /\ pc = "exit") =>
        /\ exitCode \in {"0", "1"}
        /\ exitCode = "0" <=> (secret = "text" /\ result.success)
        /\ secret = "text" => result # NoResult


\* the tags of a failed clone, stash, fetch, checkout, pull, file, staging,
\* URL, branch, commit, merge or push step
FailedSteps ==
    {"clone_failed", "stash_failed", "fetch_failed", "checkout_failed", "pull_failed",
     "write_failed", "add_failed", "set_url_failed", "branch_failed", "commit_failed",
     "push_feature_failed", "checkout_target_failed", "merge_conflict", "merge_failed",
     "merge_abort_failed", "push_target_failed"}

C13_NoCredentialsInConfig ==
    pc = "return" => originUrl # "creds"


\* the tags of a failed step of _commit_and_push
PublishFailures ==
    {"add_failed", "set_url_failed", "branch_failed", "commit_failed", "push_feature_failed",
     "checkout_target_failed", "merge_conflict", "merge_failed", "merge_abort_failed",
     "push_target_failed"}

\* the properties file of the remote target branch holds new_value for the key
RemoteHoldsNewValue ==
    ReadProperty(TreeOf(remote[BRANCH])[PROPERTIES_FILE], property_key) = Strip(new_value)

\* C14: a non-dry-run execute never returns success=True while the remote
\* target branch lacks new_value; and when a non-dry-run execute failed at one
\* step of the publish, the next call with the same new_value, in which no
\* command fails on its own, succeeds and leaves new_value on the remote
\* target branch.
C14_RetryPublishes ==
    /\ (pc = "return" /\ caller = "api" /\ ~dry_run /\ result.success) => RemoteHoldsNewValue
    /\ (/\ pc = "return" /\ runs = 2
        /\ caller = "api" /\ prev.caller = "api"
        /\ ~dry_run /\ ~prev.dry_run
        /\ prev.ops \cap PublishFailures # {}
        /\ faults = 1) =>
          result.success /\ RemoteHoldsNewValue


After(earlier, later) ==
    ops \cap {later, later \o "_failed", later \o "_rejected", later \o "_conflict"} # {}
       => ops \cap {earlier, earlier \o "_rejected"} # {}

NothingStaged ==
    "add" \in ops /\ preTx.wt = TreeOf(preTx.branches[preTx.HEAD])

\* C17: when, after `git add -A`, nothing differs from the last commit,
\* _commit_and_push returns None: it attempts no URL change, branch, commit,
\* push, checkout or merge, and the URL of the remote, the branches, HEAD and
\* the remote are as they were when it began.
C17_NothingStagedIsNoOp ==
    NothingStaged =>
        /\ pc \in {"published", "return", "idle"}
        /\ feature_branch = NoBranch
        /\ ops \cap (WriteSteps \ {"write", "add"}) = {}
        /\ originUrl = preTx.originUrl
        /\ branches = preTx.branches
        /\ HEAD = preTx.HEAD
        /\ remote = preTx.remote
        /\ pc = "return" => result.success /\ result.branch_name = NoBranch

\* _commit_and_push has returned None after staging a file rewritten as it was
C17_Witness ==
    /\ NothingStaged
    /\ pc = "published"
    /\ "write" \in ops
    /\ feature_branch = NoBranch


\* C18: execute returns updated=True only if this run made a commit that
\* changes the value of the key and pushed it to the target branch, and then
\* branch_name is the feature branch it made; when the publish was a no-op,
\* updated is False.
C18_UpdatedMeansPublished ==
    /\ (pc = "return" /\ result.updated) =>
          /\ {"commit", "push_target"} \subseteq ops
          /\ result.branch_name \in FeatureNames
          /\ ReadProperty(TreeOf(remote[BRANCH])[PROPERTIES_FILE], property_key)
                # ReadProperty(TreeOf(preTx.remote[BRANCH])[PROPERTIES_FILE], property_key)
    /\ (pc = "return" /\ NothingStaged) => ~result.updated


\* the content of the properties file before _update_property wrote it: that
\* of the commit checked out when _commit_and_push began
PreUpdateContent == TreeOf(preTx.branches[preTx.HEAD])[PROPERTIES_FILE]

\* C19: when the remote set-url or the creation of the feature branch failed
\* (after staging, before any commit) and _rollback has run, the properties
\* file holds its pre-update content both in the working tree and in the index.
C19_RollbackDiscardsChange ==
    (/\ pc \in {"except", "return"}
     /\ ops \cap {"set_url_failed", "branch_failed"} # {}
     /\ {"rb_discard", "rb_checkout"} \subseteq ops) =>
        /\ wt[PROPERTIES_FILE] = PreUpdateContent
        /\ index[PROPERTIES_FILE] = PreUpdateContent


\* C20: when the creation of the feature branch fails because a branch of that
\* name existed before _commit_and_push began, that branch still exists, at
\* the same commit, after _rollback.
C20_RollbackKeepsOlderBranch ==
    (/\ pc \in {"except", "return"}
     /\ "branch_failed" \in ops
     /\ feature_branch # NoBranch
     /\ preTx.branches[feature_branch] # NoCommit) =>
        branches[feature_branch] = preTx.branches[feature_branch]


\* _rollback has been called and has returned
RollbackRan ==
    /\ pc \in {"except", "return"}
    /\ ops \cap {"rb_discard", "rb_discard_failed"} # {}

\* C21: after _rollback has run for a publish that failed at one step, with no
\* command of the rollback failing on its own, the checked-out branch is the
\* branch that was active before the sync when the repository existed, and
\* the configured branch after a fresh clone.
C21_RollbackReturnsToOriginalBranch ==
    (RollbackRan /\ faults = 1 /\ ops \cap PublishFailures # {}) =>
        HEAD = (IF pre.gitDir THEN pre.HEAD ELSE BRANCH)


\* C22: _rollback returns normally whichever of its steps fail: the exception
\* that reaches execute after it is the one _commit_and_push raises itself; and
\* when the deletion of the feature branch fails, the stash restore has still
\* been made by the time _rollback returns.
C22_RollbackNeverRaises ==
    /\ (pc = "except" /\ ops \cap {"rb_discard", "rb_discard_failed"} # {}) =>
          exc = "Failed to commit/push"
    /\ (pc = "except" /\ "rb_delete_failed" \in ops) => ~stash_created /\ RestoredOnce

\* _rollback has returned after failing to delete the feature branch, the stash popped
C22_Witness ==
    /\ pc = "except"
    /\ "rb_delete_failed" \in ops
    /\ "stash" \in ops
    /\ pops = 1
    /\ ~stash_created
    /\ exc = "Failed to commit/push"


\* the entries of a stash stack that the user made before the run
UserEntries(st) == SelectSeq(st, LAMBDA e : e.by = "user")

\* C24: while _stash_created is True the top of the stash stack is an entry
\* that _stash_changes of this run pushed, and throughout the run the stash
\* entries that existed before it are all still on the stack.
C24_StashFlagMeansOwnEntry ==
    /\ stash_created => (stash # <<>> /\ Head(stash).by = "sync")
    /\ UserEntries(stash) = UserEntries(pre.stash)


\* the files whose content differs between commit c and its parent
ChangedFiles(c) ==
    {f \in Files : c[Len(c)][f] # (IF Len(c) > 1 THEN c[Len(c) - 1][f] ELSE EmptyTree[f])}

\* C27: when execute returns with the commit of this run pushed to the target
\* branch, that commit differs from its parent in the properties file only.
C27_CommitChangesOnlyPropertiesFile ==
    (pc = "return" /\ result.success /\ "commit" \in ops /\ "push_target" \in ops) =>
        ChangedFiles(remote[BRANCH]) \subseteq {PROPERTIES_FILE}


\* a step in which _restore_stash pops the entry that _stash_changes pushed
PopsOwnEntry ==
    /\ pops' = pops + 1
    /\ stash # <<>>
    /\ Head(stash).by = "sync"

\* execute has returned success on a repository that existed, with a branch
\* other than the configured one checked out at the call
ReturnedFromOtherBranch ==
    /\ pc = "return"
    /\ result.success
    /\ pre.gitDir
    /\ pre.HEAD # BRANCH

\* C28: every pop of the stash entry of this run is made with the branch
\* checked out on which the entry was created, and when execute returns success
\* (value unchanged, dry run, or published) on an existing repository whose
\* active branch was not the configured branch, that branch is checked out.
C28_StashPoppedOnOriginalBranch ==
    /\ [][PopsOwnEntry => HEAD = Head(stash).branch]_vars
    /\ [](ReturnedFromOtherBranch => HEAD = pre.HEAD)

\* ------------------------------------------------------------------------
\* _read_property and _update_property called on their own
\* ------------------------------------------------------------------------

\* lines a properties file is made of in SpecFile
MaxLines == 3

\* line bodies, without their terminator
FileLines ==
    { <<"a", "=", "1">>,
      <<"#", "c", "o", "m", "m", "e", "n", "t">>,
      <<"b", "=", "2">>,
      <<" ", "b", " ", "=", " ", "2", " ">>,
      <<"b", "=", "2", "=", "3">>,
      <<"b", "=", "2", CR>>,
      <<"#", "b", "=", "2">>,
      <<"!", "b", "=", "2">>,
      <<"b">>,
      <<"x", ":", " ", "5">>,
      <<>> }

FileKeys == {<<"b">>, <<"x">>}
FileValues == {<<"9">>, <<"9", " ">>, <<>>}

\* the file with line bodies ls, each ended by "\n", the last one only if eol
FileOf(ls, eol) ==
    WriteLines([i \in 1..Len(ls) |-> ls[i] \o (IF i < Len(ls) \/ eol THEN <<NL>> ELSE <<>>)])

FileInputs ==
    {Absent} \cup
    {FileOf(ls, eol) : ls \in UNION {[1..n -> FileLines] : n \in 0..MaxLines},
                       eol \in BOOLEAN}

InitFile ==
    /\ pc = "file"
    /\ caller = "api"
    /\ secret = "text"
    /\ new_value \in FileValues
    /\ property_key \in FileKeys
    /\ current_value = None
    /\ dry_run = FALSE
    /\ creds = FALSE
    /\ exitCode = "none"
    /\ result = NoResult
    /\ repo = FALSE
    /\ original_branch = NoBranch
    /\ stash_created = FALSE
    /\ feature_branch = NoBranch
    /\ exc = "none"
    /\ gitDir = FALSE
    /\ HEAD = BRANCH
    /\ branches = [b \in BranchNames |-> NoCommit]
    /\ index = EmptyTree
    /\ \E content \in FileInputs : wt = [EmptyTree EXCEPT ![PROPERTIES_FILE] = content]
    /\ stash = <<>>
    /\ remote = [b \in BranchNames |-> NoCommit]
    /\ merging = FALSE
    /\ originUrl = "plain"
    /\ clock = 1
    /\ runs = 0
    /\ budget = 0
    /\ faults = 0
    /\ ops = {}
    /\ pops = 0
    /\ prev = RunSummary
    /\ pre = Snapshot
    /\ preTx = Snapshot

\* a caller calls _read_property(file_path, property_key)
CallReadProperty ==
    /\ pc \in {"file", "file_updated"}
    /\ current_value' = ReadProperty(wt[PROPERTIES_FILE], property_key)
    /\ pc' = IF pc = "file" THEN "file_read" ELSE "file_reread"
    /\ UNCHANGED <<caller, secret, new_value, property_key, dry_run, creds, exitCode,
                   result, selfVars, exc, refVars, treeVars, remote, clock, faults, ops,
                   pops, histVars>>

\* a caller calls _update_property(file_path, property_key, new_value)
CallUpdateProperty ==
    /\ pc = "file"
    /\ pre' = Snapshot
    /\ IF wt[PROPERTIES_FILE] = Absent
       THEN /\ exc' = "File not found"
            /\ pc' = "file_error"
            /\ UNCHANGED wt
       ELSE /\ wt' = [wt EXCEPT ![PROPERTIES_FILE] = UpdateProperty(@, property_key, new_value)]
            /\ pc' = "file_updated"
            /\ UNCHANGED exc
    /\ UNCHANGED <<argVars, current_value, exitCode, result, selfVars, refVars, index,
                   stash, remote, clock, runs, budget, faults, ops, pops, prev, preTx>>

\* ------------------------------------------------------------------------
\* GitPropertiesAgent.read_properties / write_properties / update_properties
\* ------------------------------------------------------------------------

\* a Python dict of str to str: the items in insertion order
DictHas(d, k) == \E i \in 1..Len(d) : d[i].key = k
DictGet(d, k) == d[CHOOSE i \in 1..Len(d) : d[i].key = k].value
\* d[k] = v
DictSet(d, k, v) ==
    IF DictHas(d, k)
    THEN [i \in 1..Len(d) |-> IF d[i].key = k THEN [key |-> k, value |-> v] ELSE d[i]]
    ELSE Append(d, [key |-> k, value |-> v])

\* a stripped line that both methods skip: empty, or a comment
AgentSkips(stripped) ==
    stripped = <<>> \/ StartsWith(stripped, "#") \/ StartsWith(stripped, "!")

\* `for separator in ['=', ':']: if separator in line: ... break`: the separator
\* the loop stops at, "" when the line has neither
AgentSeparator(stripped) ==
    IF Contains(stripped, "=") THEN "="
    ELSE IF Contains(stripped, ":") THEN ":"
    ELSE ""

RECURSIVE AgentReadScan(_, _)
AgentReadScan(lines, properties) ==
    IF lines = <<>> THEN properties
    ELSE LET line == Strip(Head(lines))
             sep == AgentSeparator(line)
         IN  IF AgentSkips(line) \/ sep = ""
             THEN AgentReadScan(Tail(lines), properties)
             ELSE AgentReadScan(Tail(lines),
                      DictSet(properties, Strip(SplitKey(line, sep)),
                              Strip(SplitValue(line, sep))))

\* read_properties(file_path) on an existing file
read_properties(content) == AgentReadScan(ReadLines(content), <<>>)

\* the key of a line that _update_preserving_structure takes for an entry
AgentLineKey(line) == Strip(SplitKey(Strip(line), AgentSeparator(Strip(line))))

\* the line is one that _update_preserving_structure replaces
AgentReplaces(line, properties) ==
    /\ ~AgentSkips(Strip(line))
    /\ AgentSeparator(Strip(line)) # ""
    /\ DictHas(properties, AgentLineKey(line))

RECURSIVE AgentUpdateScan(_, _)
AgentUpdateScan(lines, properties) ==
    IF lines = <<>> THEN <<>>
    ELSE (IF AgentReplaces(Head(lines), properties)
          THEN <<EntryLine(AgentLineKey(Head(lines)),
                           DictGet(properties, AgentLineKey(Head(lines))))>>
          ELSE <<Head(lines)>>) \o AgentUpdateScan(Tail(lines), properties)

\* the keys _update_preserving_structure has put into updated_keys
AgentUpdatedKeys(lines, properties) ==
    {AgentLineKey(lines[i]) : i \in {j \in 1..Len(lines) : AgentReplaces(lines[j], properties)}}

RECURSIVE AgentNewEntries(_, _)
AgentNewEntries(properties, updated_keys) ==
    IF properties = <<>> THEN <<>>
    ELSE (IF Head(properties).key \in updated_keys THEN <<>>
          ELSE <<EntryLine(Head(properties).key, Head(properties).value)>>)
         \o AgentNewEntries(Tail(properties), updated_keys)

\* _update_preserving_structure(full_path, properties): the content written
update_preserving_structure(content, properties) ==
    LET lines == ReadLines(content)
    IN  WriteLines(AgentUpdateScan(lines, properties)
                     \o AgentNewEntries(properties, AgentUpdatedKeys(lines, properties)))

RECURSIVE AgentPlainEntries(_)
AgentPlainEntries(properties) ==
    IF properties = <<>> THEN <<>>
    ELSE <<EntryLine(Head(properties).key, Head(properties).value)>>
         \o AgentPlainEntries(Tail(properties))

\* write_properties(file_path, properties, preserve_comments): the content written
write_properties(content, properties, preserve_comments) ==
    IF preserve_comments /\ content # Absent
    THEN update_preserving_structure(content, properties)
    ELSE WriteLines(AgentPlainEntries(properties))

RECURSIVE AgentApplyUpdates(_, _)
AgentApplyUpdates(current, updates) ==
    IF updates = <<>> THEN current
    ELSE AgentApplyUpdates(DictSet(current, Head(updates).key, Head(updates).value),
                           Tail(updates))

\* update_properties(file_path, updates) on an existing file: the content afterwards
update_properties(content, updates) ==
    write_properties(content, AgentApplyUpdates(read_properties(content), updates), TRUE)

\* main() of git-agent.py: properties_updates = {TARGET_PROPERTY_KEY: secret_value}
properties_updates == <<[key |-> property_key, value |-> new_value]>>

\* a caller calls update_properties(PROPERTIES_FILE, properties_updates)
CallUpdateProperties ==
    /\ pc = "file"
    /\ pre' = Snapshot
    /\ IF wt[PROPERTIES_FILE] = Absent
       THEN /\ exc' = "Properties file not found"
            /\ pc' = "agent_error"
            /\ UNCHANGED wt
       ELSE /\ wt' = [wt EXCEPT ![PROPERTIES_FILE] = update_properties(@, properties_updates)]
            /\ pc' = "agent_updated"
            /\ UNCHANGED exc
    /\ UNCHANGED <<argVars, current_value, exitCode, result, selfVars, refVars, index,
                   stash, remote, clock, runs, budget, faults, ops, pops, prev, preTx>>

NextFile == CallReadProperty \/ CallUpdateProperty \/ CallUpdateProperties

SpecFile == InitFile /\ [][NextFile]_vars

\* ------------------------------------------------------------------------
\* Properties of _update_property (SpecFile)
\* ------------------------------------------------------------------------

\* line is an entry line for key: stripped it is not empty, is no # comment, and
\* the text before its first "=" is, stripped, the key
IsEntryFor(line, key) ==
    LET t == Strip(line)
        i == Find(t, "=")
    IN  /\ t # <<>>
        /\ Head(t) # "#"
        /\ i > 0
        /\ Strip(SubSeq(t, 1, i - 1)) = key

ExampleFile ==
    <<"a", "=", "1", NL, "#", "c", "o", "m", "m", "e", "n", "t", NL, "b", "=", "2", NL>>
ExampleUpdated ==
    <<"a", "=", "1", NL, "#", "c", "o", "m", "m", "e", "n", "t", NL, "b", "=", "9", NL>>

\* C10: after _update_property(path, key, v) on a file that has an entry line for
\* key, the file has as many lines as it had; every entry line for key reads
\* "key=v\n" and every other line is as it was read (line ends as open() reads
\* them: "\r\n" is "\n"), in the same place; nothing is appended.  The file
\* a=1 / #comment / b=2 updated with b -> 9 becomes a=1 / #comment / b=9.
C10_UpdateRewritesMatchingLines ==
    pc = "file_updated" =>
        LET old == ReadLines(pre.wt[PROPERTIES_FILE])
            new == SplitLines(wt[PROPERTIES_FILE])
        IN  /\ (\E i \in 1..Len(old) : IsEntryFor(old[i], property_key)) =>
                  /\ Len(new) = Len(old)
                  /\ \A i \in 1..Len(old) :
                        new[i] = IF IsEntryFor(old[i], property_key)
                                 THEN property_key \o <<"=">> \o new_value \o <<NL>>
                                 ELSE old[i]
            /\ (pre.wt[PROPERTIES_FILE] = ExampleFile /\ property_key = <<"b">>
                  /\ new_value = <<"9">>) => wt[PROPERTIES_FILE] = ExampleUpdated

\* the example of C10 has been updated
C10_Witness ==
    /\ pc = "file_updated"
    /\ pre.wt[PROPERTIES_FILE] = ExampleFile
    /\ property_key = <<"b">>
    /\ new_value = <<"9">>
    /\ wt[PROPERTIES_FILE] = ExampleUpdated

\* a line as read, without its "\n"
LineBody(line) ==
    IF line # <<>> /\ line[Len(line)] = NL THEN SubSeq(line, 1, Len(line) - 1) ELSE line

\* the keys whose entries a file of FileLines can hold
EntryKeys == {<<"a">>, <<"b">>, <<"x">>}

\* C11: after _update_property(path, key, v) on a file that has no entry line
\* for key, the file holds its original lines, each with the text it had,
\* followed by one more line "key=v"; this also when the last original line had
\* no "\n".  Every other key reads as it read before, and key reads as v.
C11_AppendAddsSeparateLine ==
    (pc = "file_updated"
       /\ \A i \in 1..Len(ReadLines(pre.wt[PROPERTIES_FILE])) :
             ~IsEntryFor(ReadLines(pre.wt[PROPERTIES_FILE])[i], property_key)) =>
        LET old == ReadLines(pre.wt[PROPERTIES_FILE])
            new == ReadLines(wt[PROPERTIES_FILE])
        IN  /\ Len(new) = Len(old) + 1
            /\ \A i \in 1..Len(old) : LineBody(new[i]) = LineBody(old[i])
            /\ new[Len(new)] = property_key \o <<"=">> \o new_value \o <<NL>>
            /\ \A k \in EntryKeys \ {property_key} :
                  ReadProperty(wt[PROPERTIES_FILE], k) = ReadProperty(pre.wt[PROPERTIES_FILE], k)
            /\ ReadProperty(wt[PROPERTIES_FILE], property_key) = Strip(new_value)

\* the entry line `x: 5`
ColonLine == <<"x", ":", " ", "5">>

\* the file has the line `x: 5`
HasColonLine(content) ==
    content # Absent /\ \E i \in 1..Len(ReadLines(content)) : LineBody(ReadLines(content)[i]) = ColonLine

\* C12: on a file with the line `x: 5`, _read_property(path, "x") returns "5",
\* and _update_property(path, "x", v) leaves the file with as many lines as it
\* had, the line `x: 5` now reading "x=v" and every other line as it was.
C12_ColonSeparatorIsAnEntry ==
    /\ (pc = "file_read" /\ property_key = <<"x">> /\ HasColonLine(wt[PROPERTIES_FILE])) =>
          current_value = <<"5">>
    /\ (pc = "file_updated" /\ property_key = <<"x">> /\ HasColonLine(pre.wt[PROPERTIES_FILE])) =>
          LET old == ReadLines(pre.wt[PROPERTIES_FILE])
              new == ReadLines(wt[PROPERTIES_FILE])
          IN  /\ Len(new) = Len(old)
              /\ \A i \in 1..Len(old) :
                    LineBody(new[i]) = IF LineBody(old[i]) = ColonLine
                                       THEN <<"x", "=">> \o new_value
                                       ELSE LineBody(old[i])

\* the number of entry lines for key among lines
RECURSIVE EntryCount(_, _)
EntryCount(lines, key) ==
    IF lines = <<>> THEN 0
    ELSE (IF IsEntryFor(Head(lines), key) THEN 1 ELSE 0) + EntryCount(Tail(lines), key)

\* C23: after _update_property(path, key, v) on any existing file, the file
\* holds exactly one entry line for key.
C23_OneEntryLineRemains ==
    pc = "file_updated" => EntryCount(ReadLines(wt[PROPERTIES_FILE]), property_key) = 1

\* ------------------------------------------------------------------------
\* Properties of GitPropertiesAgent.update_properties (SpecFile)
\* ------------------------------------------------------------------------

\* the line is an entry line, with either separator, whose key is key
AgentIsEntryFor(line, key) ==
    /\ ~AgentSkips(Strip(line))
    /\ AgentSeparator(Strip(line)) # ""
    /\ AgentLineKey(line) = key

\* C25: after update_properties(file, {key: v}) every line of the file that is
\* not an entry line for key (comment, blank line, entry line with another key
\* and either separator) stands at the position it had with the text it had.
C25_UpdateLeavesOtherLinesAlone ==
    pc = "agent_updated" =>
        LET old == ReadLines(pre.wt[PROPERTIES_FILE])
            new == SplitLines(wt[PROPERTIES_FILE])
        IN  \A i \in 1..Len(old) :
               ~AgentIsEntryFor(old[i], property_key) =>
                   (i <= Len(new) /\ new[i] = old[i])

\* ------------------------------------------------------------------------
\* Properties of _update_property followed by _read_property (SpecFile)
\* ------------------------------------------------------------------------

\* C26: when _read_property(path, key) is called after
\* _update_property(path, key, v) on an existing file, with v not empty, it
\* returns v.
C26_ReadAfterUpdateReturnsValue ==
    (pc = "file_reread" /\ new_value # <<>>) => current_value = new_value

====
